---------------------------- MODULE Spec2Model ----------------------------
(***************************************************************************)
(* A model of the 3D web benchmark: src/src/main.js (the WebGL program),   *)
(* the WebGPU variant of it (src/unnamed/part_000, lines 125-937), which   *)
(* differs by the flag webgpuSupported, and the first, frame-count         *)
(* terminated program (src/unnamed/part_000, lines 1-123).                 *)
(*                                                                         *)
(* Time is counted in hundredths of a millisecond, so that the nominal     *)
(* frame interval 16.67 ms is the integer 1667.  deltaTime is kept as its  *)
(* numerator over FrameInterval, an explosion's life as its numerator over *)
(* LifeOne, totalTime in clock units: all arithmetic is exact.             *)
(*                                                                         *)
(* Every event handler of the page (click on start, a frame callback, a    *)
(* keydown, a timer) runs to completion: it is one action.                 *)
(***************************************************************************)
EXTENDS Integers, Sequences, FiniteSets, Bags, TLC

VARIABLES
    now,                \* performance.now(), the monotonic clock
    qualitySelect,      \* qualitySelect.value
    webgpuSupported,    \* part_000:131, settled before the listeners exist
    running, frameCount, totalTime, startTime,
    lastTime,           \* animate.lastTime (0 stands for undefined: both falsy)
    deltaTime,          \* the deltaTime of the frame that ran last
    cubes, lights, particleSystem, explosionParticles, cameraShake,
    camera,             \* camera.position
    scene,              \* the children of the THREE.Scene
    resultBox,          \* the result panel: display and the report written
    rafQueue,           \* callbacks pending with requestAnimationFrame
    timers,             \* callbacks pending with setTimeout
    startCount,         \* history: number of startBenchmark calls
    reports,            \* history: reports written since the last start
    basic               \* the state of the first program of part_000

vars == <<now, qualitySelect, webgpuSupported, running, frameCount, totalTime,
          startTime, lastTime, deltaTime, cubes, lights, particleSystem,
          explosionParticles, cameraShake, camera, scene, resultBox, rafQueue,
          timers, startCount, reports, basic>>

mainVars == <<running, frameCount, totalTime, startTime, lastTime,
              deltaTime, cubes, lights, particleSystem, explosionParticles,
              cameraShake, camera, scene, resultBox, rafQueue, timers, reports>>

-----------------------------------------------------------------------------
(* Bounds of the model *)

MaxStarts == 2
MaxDraws == 5
MaxDrawFrames == 1
MaxSeconds == 4
MaxStalls == 1
MaxBasicStalls == 2
MaxJoltFrames == 2
MaxCameraTicks == 4
PageLoadSeconds == 1
MaxRestartSeconds == 1
MaxClassFrames == 90
MaxClassHalves == 3
MaxPool == 2
MaxUpdates == 36
MaxParticles == 2
MaxParticleUpdates == 3
MaxFairStalls == 2

(* Program constants *)

UnitsPerMs == 100
FrameInterval == 1667
maxTime == 30
UnitsPerSecond == 1000 * UnitsPerMs
MaxDelta == 2 * FrameInterval
LifeOne == FrameInterval * 1000
OuterDelay == 2000 * UnitsPerMs
PositionOne == 2 * FrameInterval
WrapRadius == 150 * PositionOne
ResetRadius == 25 * PositionOne

QualityOptions == {"insane", "low"}

Min(a, b) == IF a < b THEN a ELSE b

BagOf(e, n) == IF n = 0 THEN EmptyBag ELSE [x \in {e} |-> n]

Entity(type, tag) == [type |-> type, tag |-> tag]

\* const qualitySettings: evaluated while webgpuSupported is still false
qualitySettings ==
    [insane |-> [cubes |-> 2000, particles |-> 20000, lights |-> 25,
                 effects |-> TRUE, complexity |-> 4]]

maxExplosions(wg) == IF wg THEN 8 ELSE 5
explosionCount(wg) == IF wg THEN 5 ELSE 3
burstGap(wg) == (IF wg THEN 800 ELSE 1000) * UnitsPerMs
lifeDecay(wg) == IF wg THEN 15 ELSE 20
shakeTrigger(wg) == IF wg THEN 7 ELSE 5

-----------------------------------------------------------------------------
(* The program's globals as one record, so that functions compose *)

Cur ==
    [running |-> running, frameCount |-> frameCount, totalTime |-> totalTime,
     startTime |-> startTime, lastTime |-> lastTime,
     deltaTime |-> deltaTime, cubes |-> cubes,
     lights |-> lights, particleSystem |-> particleSystem,
     explosionParticles |-> explosionParticles, cameraShake |-> cameraShake,
     camera |-> camera, scene |-> scene, resultBox |-> resultBox, rafQueue |-> rafQueue,
     timers |-> timers, reports |-> reports]

Install(h) ==
    /\ running' = h.running
    /\ frameCount' = h.frameCount
    /\ totalTime' = h.totalTime
    /\ startTime' = h.startTime
    /\ lastTime' = h.lastTime
    /\ deltaTime' = h.deltaTime
    /\ cubes' = h.cubes
    /\ lights' = h.lights
    /\ particleSystem' = h.particleSystem
    /\ explosionParticles' = h.explosionParticles
    /\ cameraShake' = h.cameraShake
    /\ camera' = h.camera
    /\ scene' = h.scene
    /\ resultBox' = h.resultBox
    /\ rafQueue' = h.rafQueue
    /\ timers' = h.timers
    /\ reports' = h.reports

NoParticles(kind) == [kind |-> kind, count |-> 0, tag |-> 0]

NoReport ==
    [avgFPS |-> [num |-> 0, den |-> 1], fpsText |-> [kind |-> "none", tenths |-> 0],
     performance |-> "", quality |-> "", cubes |-> 0, particles |-> 0,
     lights |-> 0, durationText |-> 0]

ExplosionEntity(e) == Entity("Explosion", e.id)

RECURSIVE ExplosionBag(_)
ExplosionBag(pool) ==
    IF pool = <<>> THEN EmptyBag
    ELSE BagOf(ExplosionEntity(Head(pool)), 1) (+) ExplosionBag(Tail(pool))

\* a filter that keeps every light
KeepAllLights(b) == b

\* lights.filter(light => light.type === 'AmbientLight')
AmbientOnly(b) ==
    LET keep == {l \in DOMAIN b : l.type = "AmbientLight"}
    IN  [l \in keep |-> b[l]]

NonAmbient(b) ==
    LET drop == {l \in DOMAIN b : l.type # "AmbientLight"}
    IN  [l \in drop |-> b[l]]

\* two numbers for a particle in place of three
bufferLengthPairs(n) == 2 * n

\* new Float32Array(count * 3)
bufferLength(n) == 3 * n

\* createParticleSystem (createEnhancedParticleSystem when enhanced): the
\* buffers of the particles the model follows, one seed for each; count is the
\* length the program gives them.  Positions count 1/PositionOne, velocities
\* halves, lifetimes 1/(100 * FrameInterval); wrapped is history: the
\* particle's position was reset in the last updateParticles call
createParticleSystem(count, run, seeds, enhanced) ==
    LET n == Len(seeds)
    IN  [kind |-> "points", count |-> count, tag |-> run,
         positions |-> [k \in 1 .. bufferLength(n) |->
                          seeds[((k - 1) \div 3) + 1].position[((k - 1) % 3) + 1]],
         velocities |-> [k \in 1 .. bufferLength(n) |->
                          seeds[((k - 1) \div 3) + 1].velocity[((k - 1) % 3) + 1]],
         colors |-> [k \in 1 .. bufferLength(n) |-> "random"],
         scales |-> [present |-> enhanced,
                     array |-> IF enhanced THEN [k \in 1 .. n |-> "random"]
                               ELSE <<>>],
         lifetimes |-> [present |-> enhanced,
                        array |-> IF enhanced
                                  THEN [k \in 1 .. n |-> seeds[k].lifetime]
                                  ELSE <<>>],
         wrapped |-> [k \in 1 .. n |-> FALSE]]

Abs(x) == IF x < 0 THEN -x ELSE x

\* a boundary test without Math.abs
outOfRangeAbove(x) == x > WrapRadius

\* Math.abs(positions[i]) > 150
outOfRange(x) == Abs(x) > WrapRadius

\* a wrap that leaves the lifetime as it is
keepLifetime(lifetimes, p) == lifetimes

\* if (lifetimes) lifetimes[particleIndex] = 0
resetLifetime(lifetimes, p) ==
    IF lifetimes.present THEN [lifetimes EXCEPT !.array[p] = 0] ELSE lifetimes

\* the body of the loop of updateParticles for the particle at index p
\* (1-based), resets[p] the position Math.random() gives it on a wrap
RECURSIVE particleLoop(_, _, _, _, _)
particleLoop(ps, p, dt, wg, resets) ==
    IF p > Len(ps.wrapped) THEN ps
    ELSE LET i == 3 * (p - 1)
             moved == [ps EXCEPT
                         !.positions[i + 1] = @ + ps.velocities[i + 1] * dt,
                         !.positions[i + 2] = @ + ps.velocities[i + 2] * dt,
                         !.positions[i + 3] = @ + ps.velocities[i + 3] * dt]
             aged == IF wg /\ ps.lifetimes.present /\ ps.scales.present
                     THEN [moved EXCEPT !.lifetimes.array[p] = @ + dt,
                                        !.scales.array[p] = "sine"]
                     ELSE moved
             wrap == \/ outOfRange(aged.positions[i + 1])
                     \/ outOfRange(aged.positions[i + 2])
                     \/ outOfRange(aged.positions[i + 3])
             reset == IF wrap
                      THEN [aged EXCEPT
                              !.positions[i + 1] = resets[p][1],
                              !.positions[i + 2] = resets[p][2],
                              !.positions[i + 3] = resets[p][3],
                              !.lifetimes = resetLifetime(@, p),
                              !.wrapped[p] = TRUE]
                      ELSE [aged EXCEPT !.wrapped[p] = FALSE]
             coloured == [reset EXCEPT !.colors[i + 1] = "rainbow",
                                       !.colors[i + 2] = "rainbow",
                                       !.colors[i + 3] = "rainbow"]
         IN  particleLoop(coloured, p + 1, dt, wg, resets)

updateParticles(h, dt, wg, resets) ==
    IF h.particleSystem.kind # "points" THEN h
    ELSE [h EXCEPT !.particleSystem = particleLoop(@, 1, dt, wg, resets)]

clearScene(h) ==
    LET s1 == h.scene (-) h.cubes
        s2 == IF h.particleSystem.kind = "points"
              THEN s1 (-) BagOf(Entity("Points", h.particleSystem.tag), 1)
              ELSE s1
        s3 == s2 (-) ExplosionBag(h.explosionParticles)
        s4 == s3 (-) NonAmbient(h.lights)
    IN  [h EXCEPT !.cubes = EmptyBag,
                  !.particleSystem = IF h.particleSystem.kind = "points"
                                     THEN NoParticles("null") ELSE @,
                  !.explosionParticles = <<>>,
                  !.lights = AmbientOnly(h.lights),
                  !.scene = s4]

\* the identity of a new THREE.Points: the least name no live effect bears
FreshId(h) ==
    LET used == {h.explosionParticles[i].id : i \in DOMAIN h.explosionParticles}
                \cup {e.tag : e \in {x \in DOMAIN h.scene : x.type = "Explosion"}}
    IN  CHOOSE n \in 1 .. Cardinality(used) + 1 : n \notin used

createExplosionEffect(h, run, by, src) ==
    LET explosion == [id |-> FreshId(h), life |-> LifeOne, run |-> run,
                      by |-> by, src |-> src]
    IN  [h EXCEPT !.scene = @ (+) BagOf(ExplosionEntity(explosion), 1),
                  !.explosionParticles = Append(@, explosion)]

\* setupScene: threw is TRUE when settings.cubes raises a TypeError
\* A coordinate of camera.position: the value last assigned, a literal of the
\* code or the point of the orbital path at a timestamp, and the shake offsets
\* added to it since.  An offset is draw/4 * intensity, the intensity being
\* base/10 * 0.95^decays
Literal(v) == [kind |-> "literal", at |-> v]
Orbital(t) == [kind |-> "orbit", at |-> t]
coordinate(value) == [value |-> value, offsets |-> <<>>]
cameraAt(x, y, z) ==
    [x |-> coordinate(x), y |-> coordinate(y), z |-> coordinate(z)]

\* c += (Math.random() - 0.5) * cameraShake.intensity
offsetBy(c, draw, shake) ==
    IF draw = 0 THEN c
    ELSE [c EXCEPT !.offsets = Append(@, [draw |-> draw, base |-> shake.base,
                                          decays |-> shake.decays])]

setupScene(h, quality, run, wg) ==
    LET h1 == clearScene(h)
        h2 == IF BagCardinality(h1.lights) = 0
              THEN [h1 EXCEPT !.lights = @ (+) BagOf(Entity("AmbientLight", run), 1),
                              !.scene = @ (+) BagOf(Entity("AmbientLight", run), 1)]
              ELSE h1
    IN  IF quality \notin DOMAIN qualitySettings
        THEN [h |-> h2, threw |-> TRUE]
        ELSE LET settings == qualitySettings[quality]
                 newCubes == BagOf(Entity("Mesh", run), settings.cubes)
                 points == createParticleSystem(settings.particles, run, <<>>,
                                                wg)
                 newLights == BagOf(Entity("PointLight", run), settings.lights)
             IN  [h |-> [h2 EXCEPT
                            !.cubes = @ (+) newCubes,
                            !.particleSystem = points,
                            !.lights = @ (+) newLights,
                            !.scene = @ (+) newCubes
                                        (+) BagOf(Entity("Points", run), 1)
                                        (+) newLights,
                            !.camera = cameraAt(Literal(0), Literal(0),
                                                Literal(80))],
                  threw |-> FALSE]

RemoveAt(s, i) == SubSeq(s, 1, i - 1) \o SubSeq(s, i + 1, Len(s))

\* a removal test that lets an effect of life 0 live on
expiredBelowZero(life) == life < 0

\* if (explosion.life <= 0)
expired(life) == life <= 0

\* the loop run forwards, from index k: after a splice the effect that moved
\* into the place of the removed one is passed over
RECURSIVE forwardLoop(_, _, _)
forwardLoop(h, k, dec) ==
    IF k > Len(h.explosionParticles) THEN h
    ELSE LET explosion == h.explosionParticles[k]
             life == explosion.life - dec
         IN  IF expired(life)
             THEN forwardLoop(
                    [h EXCEPT !.scene = @ (-) BagOf(ExplosionEntity(explosion), 1),
                              !.explosionParticles = RemoveAt(@, k)],
                    k + 1, dec)
             ELSE forwardLoop(
                    [h EXCEPT !.explosionParticles[k].life = life],
                    k + 1, dec)

explosionLoopForward(h, i, dec) == forwardLoop(h, 1, dec)

\* the reverse loop of updateExplosions, i the (1-based) index being visited
RECURSIVE explosionLoop(_, _, _)
explosionLoop(h, i, dec) ==
    IF i = 0 THEN h
    ELSE LET explosion == h.explosionParticles[i]
             life == explosion.life - dec
         IN  IF expired(life)
             THEN explosionLoop(
                    [h EXCEPT !.scene = @ (-) BagOf(ExplosionEntity(explosion), 1),
                              !.explosionParticles = RemoveAt(@, i)],
                    i - 1, dec)
             ELSE explosionLoop(
                    [h EXCEPT !.explosionParticles[i].life = life],
                    i - 1, dec)

updateExplosions(h, dt, wg) ==
    explosionLoop(h, Len(h.explosionParticles), dt * lifeDecay(wg))


-----------------------------------------------------------------------------
(* The result classifier *)

\* avgFPS = frameCount / totalTime as a fraction; den = 0 is JavaScript's
\* Infinity (num > 0) or NaN (num = 0)
Quotient(n, d) == [num |-> n, den |-> d]

IsNaN(q) == q.den = 0 /\ q.num = 0
IsInfinity(q) == q.den = 0 /\ q.num > 0
IsFinite(q) == q.den # 0

\* q > c for a number c: false for NaN, true for Infinity
Greater(q, c) == IF q.den = 0 THEN q.num > 0 ELSE q.num > c * q.den

\* Number.prototype.toFixed(1): the nearest tenth, the larger one on a tie
toFixed1(q) ==
    IF IsNaN(q) THEN [kind |-> "NaN", tenths |-> 0]
    ELSE IF IsInfinity(q) THEN [kind |-> "Infinity", tenths |-> 0]
    ELSE [kind |-> "number",
          tenths |-> 10 * (q.num \div q.den)
                     + (20 * (q.num % q.den) + q.den) \div (2 * q.den)]

\* Number.prototype.toFixed(2): the nearest hundredth, the larger one on a tie
toFixed2(q) ==
    IF IsNaN(q) THEN [kind |-> "NaN", hundredths |-> 0]
    ELSE IF IsInfinity(q) THEN [kind |-> "Infinity", hundredths |-> 0]
    ELSE [kind |-> "number",
          hundredths |-> 100 * (q.num \div q.den)
                         + (200 * (q.num % q.den) + q.den) \div (2 * q.den)]

toUpperCase(quality) == IF quality = "insane" THEN "INSANE" ELSE "LOW"

performanceLabel(avgFPS, wg) ==
    IF Greater(avgFPS, 55) THEN (IF wg THEN "WEBGPU BEAST" ELSE "BEAST MODE")
    ELSE IF Greater(avgFPS, 40) THEN (IF wg THEN "WEBGPU HIGH-END" ELSE "HIGH-END")
    ELSE IF Greater(avgFPS, 25) THEN "MID-RANGE"
    ELSE IF Greater(avgFPS, 15) THEN "BUDGET"
    ELSE "TOASTER"

\* const avgFPS = frameCount / totalTime, totalTime in seconds
averageOverMaxTime(h) == Quotient(h.frameCount, maxTime)

averageFPS(h) == Quotient(h.frameCount * UnitsPerSecond, h.totalTime)

\* finishBenchmark: the template literal reads settings.cubes, which raises a
\* TypeError when qualitySelect.value is no key of qualitySettings; innerHTML
\* and display are then left as they were
finishBenchmark(h, quality, wg) ==
    LET h1 == [h EXCEPT !.running = FALSE]
        avgFPS == averageFPS(h)
    IN  IF quality \notin DOMAIN qualitySettings THEN h1
        ELSE LET settings == qualitySettings[quality]
                 report ==
                    [avgFPS |-> avgFPS,
                     fpsText |-> toFixed1(avgFPS),
                     performance |-> performanceLabel(avgFPS, wg),
                     quality |-> toUpperCase(quality),
                     cubes |-> settings.cubes,
                     particles |-> settings.particles,
                     lights |-> settings.lights,
                     durationText |->
                        toFixed1(Quotient(h.totalTime, UnitsPerSecond)).tenths]
             IN  [h1 EXCEPT !.resultBox = [display |-> "block", report |-> report],
                            !.reports = @ + 1]

-----------------------------------------------------------------------------
(* The frame *)

RECURSIVE Pow(_, _)
Pow(b, n) == IF n = 0 THEN 1 ELSE b * Pow(b, n - 1)

\* cameraShake.intensity = base/10 * 0.95^decays is at least t/10, that is
\* base * 19^decays >= t * 20^decays.  After 7 decays an intensity is below
\* 5/7 of its base, the smallest ratio of two trigger values
intensityAtLeast(shake, t) ==
    IF shake.base < t THEN FALSE
    ELSE IF shake.decays = 0 THEN TRUE
    ELSE IF shake.decays >= 7 THEN FALSE
    ELSE shake.base * Pow(19, shake.decays) >= t * Pow(20, shake.decays)

\* Math.max(cameraShake.intensity, 0.5)
maxIntensity(shake, t) ==
    IF intensityAtLeast(shake, t) THEN shake ELSE [base |-> t, decays |-> 0]

\* the cubes whose Math.random() draw fell below explosionChance, in turn
RECURSIVE randomExplosions(_, _, _, _)
randomExplosions(h, draws, wg, run) ==
    IF draws = 0 THEN h
    ELSE LET h2 == IF Len(h.explosionParticles) < maxExplosions(wg)
                   THEN [createExplosionEffect(h, run, run, "random") EXCEPT
                            !.cameraShake =
                                maxIntensity(@, shakeTrigger(wg))]
                   ELSE h
         IN  randomExplosions(h2, draws - 1, wg, run)

\* a shake step that leaves the intensity as it is
shakeStepNoDecay(h) == h

\* if (cameraShake.intensity > 0) ... cameraShake.intensity *= 0.95
shakeStep(h) ==
    IF h.cameraShake.base > 0
    THEN [h EXCEPT !.cameraShake.decays = @ + 1]
    ELSE h

\* camera.position.x += cameraShake.x; camera.position.y += cameraShake.y
shakeCamera(h, jolt) ==
    IF h.cameraShake.base > 0
    THEN [h EXCEPT !.camera.x = offsetBy(@, jolt.x, h.cameraShake),
                   !.camera.y = offsetBy(@, jolt.y, h.cameraShake)]
    ELSE h

\* an automatic camera movement that assigns z only
autoCameraDepthOnly(h, currentTime) ==
    [h EXCEPT !.camera.z = coordinate(Orbital(currentTime))]

\* camera.position.x = Math.sin(time * 0.3) * 20;
\* camera.position.z = 80 + Math.cos(time * 0.2) * 30
autoCamera(h, currentTime) ==
    [h EXCEPT !.camera.x = coordinate(Orbital(currentTime)),
              !.camera.z = coordinate(Orbital(currentTime))]

\* the frame delta without Math.min(..., 2)
frameDeltaUnclamped(h, currentTime) ==
    currentTime - (IF h.lastTime = 0 THEN currentTime ELSE h.lastTime)

frameDelta(h, currentTime) ==
    Min(currentTime - (IF h.lastTime = 0 THEN currentTime ELSE h.lastTime),
        MaxDelta)

\* the frame-count test of the first program in place of the elapsed-time test
runContinuesByFrames(h) == h.frameCount < maxTime * 60 /\ h.running

\* a test that lets the run go on when totalTime equals maxTime
runContinuesAtLimit(h) == h.totalTime <= maxTime * UnitsPerSecond /\ h.running

\* a test that never ends the run by time
runContinuesWhileRunning(h) == h.running

\* if (totalTime < maxTime && running)
runContinues(h) == h.totalTime < maxTime * UnitsPerSecond /\ h.running

\* a frame callback that runs its body whether the run is running or not
frameRunsAlways(h) == TRUE

\* if (!running) return
frameRuns(h) == h.running

animate(h, currentTime, draws, quality, wg, run, renders, jolt) ==
    IF ~frameRuns(h) THEN h
    ELSE LET h1 == [h EXCEPT !.deltaTime = frameDelta(h, currentTime),
                             !.lastTime = currentTime]
             h2 == randomExplosions(h1, Min(draws, BagCardinality(h1.cubes)),
                                    wg, run)
             h3 == updateExplosions(
                     updateParticles(h2, h1.deltaTime, wg, <<>>),
                     h1.deltaTime, wg)
             h4 == autoCamera(shakeStep(shakeCamera(h3, jolt)), currentTime)
             h5 == [h4 EXCEPT !.frameCount = @ + 1,
                              !.totalTime = currentTime - h.startTime]
         IN  IF ~renders THEN h4  \* renderer.render throws: nothing catches it
             ELSE IF runContinues(h5)
             THEN [h5 EXCEPT !.rafQueue = Append(@, currentTime)]
             ELSE finishBenchmark(h5, quality, wg)

startBenchmark(h, t0, setupTime, draws, quality, wg, run, jolt) ==
    LET h1 == [h EXCEPT !.running = TRUE, !.frameCount = 0, !.totalTime = 0,
                        !.startTime = t0, !.resultBox.display = "none",
                        !.reports = 0]
        s == setupScene(h1, quality, run, wg)
        outer == [kind |-> "outer", due |-> t0 + setupTime + OuterDelay,
                  run |-> run]
    IN  IF s.threw THEN s.h
        ELSE animate([s.h EXCEPT !.timers = @ (+) BagOf(outer, 1)],
                     t0 + setupTime, draws, quality, wg, run, TRUE, jolt)

\* the callback of the 2000 ms timer
outerTimer(h, tm, t, wg) ==
    LET h1 == [h EXCEPT !.timers = @ (-) BagOf(tm, 1)]
        inner == [i \in 0 .. explosionCount(wg) - 1 |->
                    [kind |-> "inner", due |-> t + i * burstGap(wg),
                     run |-> tm.run]]
        RECURSIVE Schedule(_, _)
        Schedule(b, i) ==
            IF i = explosionCount(wg) THEN b
            ELSE Schedule(b (+) BagOf(inner[i], 1), i + 1)
    IN  IF h1.running THEN [h1 EXCEPT !.timers = Schedule(@, 0)] ELSE h1

\* a burst callback that does not test running
innerTimerUnguarded(h, tm, run) ==
    createExplosionEffect([h EXCEPT !.timers = @ (-) BagOf(tm, 1)], run,
                          tm.run, "scripted")

\* the callback of one burst timer
innerTimer(h, tm, run) ==
    LET h1 == [h EXCEPT !.timers = @ (-) BagOf(tm, 1)]
    IN  IF h1.running THEN createExplosionEffect(h1, run, tm.run, "scripted")
        ELSE h1

\* a keydown handler that does not test running
keydownUnguarded(h, key, quality, wg) ==
    IF key = "Escape" THEN finishBenchmark(h, quality, wg) ELSE h

keydown(h, key, quality, wg) ==
    IF key = "Escape" /\ h.running THEN finishBenchmark(h, quality, wg) ELSE h

-----------------------------------------------------------------------------
(* The first program of part_000 (lines 1-123): cubes only, a run of        *)
(* maxTime * 60 frames, its own classifier                                 *)

basicCount(quality) ==
    IF quality = "low" THEN 50
    ELSE IF quality = "medium" THEN 200
    ELSE IF quality = "high" THEN 800
    ELSE 0

basicClearScene(b) ==
    [b EXCEPT !.scene = @ (-) b.cubes, !.cubes = EmptyBag]

basicSetupScene(b, quality, run) ==
    LET b1 == basicClearScene(b)
        newCubes == BagOf(Entity("Mesh", run), basicCount(quality))
    IN  [b1 EXCEPT !.cubes = @ (+) newCubes,
                   !.scene = @ (+) newCubes
                               (+) BagOf(Entity("AmbientLight", run), 1)
                               (+) BagOf(Entity("DirectionalLight", run), 1)]

basicLabel(avgFPS) ==
    IF Greater(avgFPS, 50) THEN "High-end"
    ELSE IF Greater(avgFPS, 30) THEN "Mid-range"
    ELSE "Low-end"

\* the else branch of animate: the result for the average avgFPS
basicFinish(b, avgFPS) ==
    [b EXCEPT !.running = FALSE,
              !.result = [display |-> "block", avgFPS |-> avgFPS,
                          text |-> toFixed2(avgFPS),
                          performance |-> basicLabel(avgFPS)],
              !.reports = @ + 1]

\* animate with the test frameCount <= maxTime * 60
basicAnimateLate(b) ==
    IF ~b.running THEN b
    ELSE LET b1 == [b EXCEPT !.frameCount = @ + 1]
         IN  IF b1.frameCount <= maxTime * 60
             THEN [b1 EXCEPT !.rafPending = @ + 1]
             ELSE basicFinish(b1, Quotient(b1.frameCount, maxTime))

basicAnimate(b) ==
    IF ~b.running THEN b
    ELSE LET b1 == [b EXCEPT !.frameCount = @ + 1]
         IN  IF b1.frameCount < maxTime * 60
             THEN [b1 EXCEPT !.rafPending = @ + 1]
             ELSE basicFinish(b1, Quotient(b1.frameCount, maxTime))

basicStartBenchmark(b, quality, run) ==
    LET b1 == [b EXCEPT !.running = TRUE, !.frameCount = 0, !.totalTime = 0,
                        !.result.display = "none", !.reports = 0]
    IN  basicAnimate(basicSetupScene(b1, quality, run))

BasicInit ==
    [cubes |-> EmptyBag, scene |-> EmptyBag, frameCount |-> 0, totalTime |-> 0,
     running |-> FALSE, rafPending |-> 0, reports |-> 0,
     result |-> [display |-> "initial", avgFPS |-> Quotient(0, 1),
                 text |-> [kind |-> "", hundredths |-> 0],
                 performance |-> ""]]

-----------------------------------------------------------------------------
(* The environment: the user, the clock, the schedulers *)

SetupTimes == {0, FrameInterval}

\* the two Math.random() draws of the shake step, as quarters of
\* Math.random() - 0.5; the runs that do not follow the camera draw 0.5 twice
Jolts == [x : {-1, 0, 1}, y : {-1, 0, 1}]
NoJolt == [x |-> 0, y |-> 0]

\* the numbers of successful Math.random() draws the model tries in a frame
Draws(frames) == IF frames < MaxDrawFrames THEN 0 .. MaxDraws ELSE {0}
Keys == {"Escape", "Enter"}

\* renderer.render(scene, camera) returns (TRUE) or throws (FALSE)
Renders == BOOLEAN
PageLoadTime == PageLoadSeconds * UnitsPerSecond
MaxClock == PageLoadTime + MaxSeconds * UnitsPerSecond + MaxStalls * maxTime * UnitsPerSecond

\* the start button can still be clicked: again, during the first
\* MaxRestartSeconds only
CanStart ==
    /\ startCount < MaxStarts
    /\ startCount > 0 => now <= PageLoadTime + MaxRestartSeconds * UnitsPerSecond

\* the globals once the script has loaded
Page ==
    [running |-> FALSE, frameCount |-> 0, totalTime |-> 0, startTime |-> 0,
     lastTime |-> 0, deltaTime |-> 0, cubes |-> EmptyBag, lights |-> EmptyBag,
     particleSystem |-> NoParticles("undefined"), explosionParticles |-> <<>>,
     cameraShake |-> [base |-> 0, decays |-> 0],
     camera |-> cameraAt(Literal(0), Literal(0), Literal(0)),
     scene |-> EmptyBag,
     resultBox |-> [display |-> "initial", report |-> NoReport],
     rafQueue |-> <<>>, timers |-> EmptyBag, reports |-> 0]

Holds(h) ==
    /\ running = h.running
    /\ frameCount = h.frameCount
    /\ totalTime = h.totalTime
    /\ startTime = h.startTime
    /\ lastTime = h.lastTime
    /\ deltaTime = h.deltaTime
    /\ cubes = h.cubes
    /\ lights = h.lights
    /\ particleSystem = h.particleSystem
    /\ explosionParticles = h.explosionParticles
    /\ cameraShake = h.cameraShake
    /\ camera = h.camera
    /\ scene = h.scene
    /\ resultBox = h.resultBox
    /\ rafQueue = h.rafQueue
    /\ timers = h.timers
    /\ reports = h.reports

Init ==
    /\ now = PageLoadTime
    /\ qualitySelect \in QualityOptions
    /\ webgpuSupported \in BOOLEAN
    /\ Holds(Page)
    /\ startCount = 0
    /\ basic = BasicInit

\* a click on the start button
Start ==
    /\ CanStart
    /\ \E setupTime \in SetupTimes, draws \in Draws(0) :
        /\ Install(startBenchmark(Cur, now, setupTime, draws, qualitySelect,
                                  webgpuSupported, startCount + 1, NoJolt))
        /\ now' = now + setupTime
    /\ startCount' = startCount + 1
    /\ UNCHANGED <<qualitySelect, webgpuSupported, basic>>

NoFrameDue == \A i \in 1 .. Len(rafQueue) : rafQueue[i] = now
NoTimerDue == \A tm \in DOMAIN timers : tm.due > now

\* the display refresh runs the oldest pending frame callback, once the timer
\* callbacks that are due have run
Frame ==
    /\ rafQueue # <<>>
    /\ Head(rafQueue) < now
    /\ NoTimerDue
    /\ \E draws \in Draws(frameCount) :
        Install(animate([Cur EXCEPT !.rafQueue = Tail(@)], now, draws,
                        qualitySelect, webgpuSupported, startCount, TRUE,
                        NoJolt))
    /\ UNCHANGED <<now, qualitySelect, webgpuSupported, startCount, basic>>

KeyDown ==
    /\ \E key \in Keys :
        Install(keydown(Cur, key, qualitySelect, webgpuSupported))
    /\ UNCHANGED <<now, qualitySelect, webgpuSupported, startCount, basic>>

\* setTimeout callbacks run in the order of their due times
Earliest(tm) == \A other \in DOMAIN timers : tm.due <= other.due

OuterTimer ==
    /\ \E tm \in DOMAIN timers :
        /\ tm.kind = "outer"
        /\ tm.due <= now
        /\ Earliest(tm)
        /\ Install(outerTimer(Cur, tm, now, webgpuSupported))
    /\ UNCHANGED <<now, qualitySelect, webgpuSupported, startCount, basic>>

InnerTimer ==
    /\ \E tm \in DOMAIN timers :
        /\ tm.kind = "inner"
        /\ tm.due <= now
        /\ Earliest(tm)
        /\ Install(innerTimer(Cur, tm, startCount))
    /\ UNCHANGED <<now, qualitySelect, webgpuSupported, startCount, basic>>

SelectQuality ==
    /\ \E q \in QualityOptions \ {qualitySelect} : qualitySelect' = q
    /\ UNCHANGED <<now, webgpuSupported, startCount, basic>>
    /\ UNCHANGED mainVars

\* the clock steps the model takes: a second (during the first MaxSeconds) and
\* a stall of the page as long as a whole run (at most MaxStalls)
Stall == maxTime * UnitsPerSecond
TickSteps == {UnitsPerSecond, Stall}

TickAllowed(d) ==
    /\ now + d <= MaxClock
    /\ d = UnitsPerSecond =>
          now + d <= PageLoadTime + MaxSeconds * UnitsPerSecond

\* a later event of the page can still depend on the time that passes
Awaiting ==
    \/ running
    \/ rafQueue # <<>>
    \/ timers # EmptyBag
    \/ CanStart

\* time passes, once the page is in use and nothing is due
Tick ==
    /\ startCount > 0
    /\ Awaiting
    /\ NoFrameDue
    /\ NoTimerDue
    /\ \E d \in TickSteps :
        /\ TickAllowed(d)
        /\ now' = now + d
    /\ UNCHANGED <<qualitySelect, webgpuSupported, startCount, basic>>
    /\ UNCHANGED mainVars

Next ==
    \/ Start
    \/ Frame
    \/ KeyDown
    \/ OuterTimer
    \/ InnerTimer
    \/ SelectQuality
    \/ Tick

Spec == Init /\ [][Next]_vars

-----------------------------------------------------------------------------
(* The first program of part_000 driven by the user: SpecBasic *)

BasicStart ==
    /\ startCount < MaxStarts
    /\ basic' = basicStartBenchmark(basic, qualitySelect, startCount + 1)
    /\ startCount' = startCount + 1
    /\ UNCHANGED <<now, qualitySelect, webgpuSupported>>
    /\ UNCHANGED mainVars

BasicFrame ==
    /\ basic.rafPending > 0
    /\ basic' = basicAnimate([basic EXCEPT !.rafPending = @ - 1])
    /\ UNCHANGED <<now, qualitySelect, webgpuSupported, startCount>>
    /\ UNCHANGED mainVars

\* the frames of a run take their time: the clock stalls between two frames
BasicTick ==
    /\ basic.running
    /\ now + Stall <= PageLoadTime + MaxBasicStalls * Stall
    /\ now' = now + Stall
    /\ UNCHANGED <<qualitySelect, webgpuSupported, startCount, basic>>
    /\ UNCHANGED mainVars

BasicNext ==
    \/ BasicStart
    \/ BasicFrame
    \/ SelectQuality
    \/ BasicTick

SpecBasic == Init /\ [][BasicNext]_vars

-----------------------------------------------------------------------------
(* One run of either program at the nominal frame rate: every frame one     *)
(* FrameInterval after the one before, no cube explodes by chance:          *)
(* SpecNominal                                                              *)

NominalStart ==
    /\ startCount = 0
    /\ \E setupTime \in SetupTimes :
        /\ Install(startBenchmark(Cur, now, setupTime, 0, qualitySelect,
                                  webgpuSupported, 1, NoJolt))
        /\ now' = now + setupTime
    /\ startCount' = 1
    /\ UNCHANGED <<qualitySelect, webgpuSupported, basic>>

NominalFrame ==
    /\ rafQueue # <<>>
    /\ Head(rafQueue) < now
    /\ NoTimerDue
    /\ Install(animate([Cur EXCEPT !.rafQueue = Tail(@)], now, 0,
                       qualitySelect, webgpuSupported, startCount, TRUE,
                       NoJolt))
    /\ UNCHANGED <<now, qualitySelect, webgpuSupported, startCount, basic>>

NominalTick ==
    /\ rafQueue # <<>>
    /\ NoFrameDue
    /\ NoTimerDue
    /\ now' = now + FrameInterval
    /\ UNCHANGED <<qualitySelect, webgpuSupported, startCount, basic>>
    /\ UNCHANGED mainVars

NominalBasicStart ==
    /\ startCount = 0
    /\ basic' = basicStartBenchmark(basic, qualitySelect, 1)
    /\ startCount' = 1
    /\ UNCHANGED <<now, qualitySelect, webgpuSupported>>
    /\ UNCHANGED mainVars

NominalNext ==
    \/ NominalStart
    \/ NominalFrame
    \/ NominalTick
    \/ OuterTimer
    \/ InnerTimer
    \/ NominalBasicStart
    \/ BasicFrame

SpecNominal == Init /\ [][NominalNext]_vars

-----------------------------------------------------------------------------
(* One run of main.js at the nominal frame rate in which the render call of *)
(* a frame may throw: SpecRender                                            *)

RenderFrame ==
    /\ rafQueue # <<>>
    /\ Head(rafQueue) < now
    /\ NoTimerDue
    /\ \E renders \in Renders :
        Install(animate([Cur EXCEPT !.rafQueue = Tail(@)], now, 0,
                        qualitySelect, webgpuSupported, startCount, renders,
                        NoJolt))
    /\ UNCHANGED <<now, qualitySelect, webgpuSupported, startCount, basic>>

RenderNext ==
    \/ NominalStart
    \/ RenderFrame
    \/ NominalTick
    \/ OuterTimer
    \/ InnerTimer

SpecRender == Init /\ [][RenderNext]_vars

-----------------------------------------------------------------------------
(* One run of either program with a clock that keeps advancing, by seconds  *)
(* or by a stall, and an event loop that runs every callback that is due;   *)
(* the scripted timers fire, Escape may be pressed: SpecFair                *)

FairClock == PageLoadTime + FrameInterval + MaxFairStalls * Stall

FairTick ==
    /\ rafQueue # <<>>
    /\ NoFrameDue
    /\ NoTimerDue
    /\ \E d \in TickSteps :
        /\ now + d <= FairClock
        /\ now' = now + d
    /\ UNCHANGED <<qualitySelect, webgpuSupported, startCount, basic>>
    /\ UNCHANGED mainVars

FairNext ==
    \/ NominalStart
    \/ Frame
    \/ KeyDown
    \/ OuterTimer
    \/ InnerTimer
    \/ FairTick
    \/ NominalBasicStart
    \/ BasicFrame

-----------------------------------------------------------------------------
(* Runs of main.js whose camera is followed: SpecCamera *)

\* the draws of the shake step the model tries in a frame
JoltsAt(frames) == IF frames < MaxJoltFrames THEN Jolts ELSE {NoJolt}

CameraStart ==
    /\ CanStart
    /\ \E setupTime \in SetupTimes, draws \in Draws(0), jolt \in JoltsAt(0) :
        /\ Install(startBenchmark(Cur, now, setupTime, draws, qualitySelect,
                                  webgpuSupported, startCount + 1, jolt))
        /\ now' = now + setupTime
    /\ startCount' = startCount + 1
    /\ UNCHANGED <<qualitySelect, webgpuSupported, basic>>

CameraFrame ==
    /\ rafQueue # <<>>
    /\ Head(rafQueue) < now
    /\ NoTimerDue
    /\ \E draws \in Draws(frameCount), jolt \in JoltsAt(frameCount) :
        Install(animate([Cur EXCEPT !.rafQueue = Tail(@)], now, draws,
                        qualitySelect, webgpuSupported, startCount, TRUE,
                        jolt))
    /\ UNCHANGED <<now, qualitySelect, webgpuSupported, startCount, basic>>

\* the display refreshes of the first MaxCameraTicks frame intervals, which
\* end before the first scripted timer is due
CameraTick ==
    /\ rafQueue # <<>>
    /\ NoFrameDue
    /\ now + FrameInterval <= PageLoadTime + MaxCameraTicks * FrameInterval
    /\ now' = now + FrameInterval
    /\ UNCHANGED <<qualitySelect, webgpuSupported, startCount, basic>>
    /\ UNCHANGED mainVars

CameraNext ==
    \/ CameraStart
    \/ CameraFrame
    \/ KeyDown
    \/ CameraTick

SpecCamera == Init /\ [][CameraNext]_vars

\* the enabling conditions of Frame and of the two timer actions
FrameDue == rafQueue # <<>> /\ Head(rafQueue) < now /\ NoTimerDue
TimerDue == \E tm \in DOMAIN timers : tm.due <= now

\* the clock is weakly fair, and so are the frame callbacks and the timer
\* callbacks: their weak fairness is written with the enabling conditions
\* above in place of ENABLED
SpecFair ==
    /\ Init
    /\ [][FairNext]_vars
    /\ WF_vars(FairTick)
    /\ ([]<>(~FrameDue) \/ []<><<Frame>>_vars)
    /\ ([]<>(~TimerDue) \/ []<><<OuterTimer \/ InnerTimer>>_vars)
    /\ WF_vars(BasicFrame)

-----------------------------------------------------------------------------
(* The classifiers applied to chosen averages: SpecClassify.  A run of       *)
(* main.js is observed after frameCount frames in totalTime, before the     *)
(* 2000 ms timer, and cancelled; the first program's result block is given  *)
(* the same average                                                         *)

\* the globals after a click on start, tier insane, first frame included
RunningPage(wg) ==
    startBenchmark(Page, PageLoadTime, 0, 0, "insane", wg, 1, NoJolt)

ClassFrames == 1 .. MaxClassFrames
ClassTimes == {k * (UnitsPerSecond \div 2) : k \in 1 .. MaxClassHalves}

ClassifyInit ==
    /\ qualitySelect = "insane"
    /\ webgpuSupported \in BOOLEAN
    /\ startCount = 1
    /\ basic = basicStartBenchmark(BasicInit, "low", 1)
    /\ \E f \in ClassFrames, t \in ClassTimes :
        /\ now = PageLoadTime + t
        /\ Holds([RunningPage(webgpuSupported) EXCEPT
                    !.frameCount = f, !.totalTime = t,
                    !.lastTime = PageLoadTime + t,
                    !.deltaTime = FrameInterval,
                    !.rafQueue = <<PageLoadTime + t>>])

BasicClassify ==
    /\ basic.running
    /\ basic' = basicFinish(basic, averageFPS(Cur))
    /\ UNCHANGED <<now, qualitySelect, webgpuSupported, startCount>>
    /\ UNCHANGED mainVars

ClassifyNext ==
    \/ KeyDown
    \/ BasicClassify

SpecClassify == ClassifyInit /\ [][ClassifyNext]_vars

-----------------------------------------------------------------------------
(* createExplosionEffect and updateExplosions applied in any order to the   *)
(* pool of a running page: SpecExplosions                                   *)

DeltaTimes == {0, FrameInterval, MaxDelta}

ExplosionsInit ==
    /\ now = PageLoadTime
    /\ qualitySelect = "insane"
    /\ webgpuSupported \in BOOLEAN
    /\ startCount = 1
    /\ basic = BasicInit
    /\ Holds(RunningPage(webgpuSupported))

SpawnEffect ==
    /\ Len(explosionParticles) < MaxPool
    /\ Install(createExplosionEffect(Cur, 1, 1, "scripted"))
    /\ UNCHANGED <<now, qualitySelect, webgpuSupported, startCount, basic>>

\* the frame's call of updateExplosions, the frame counted
UpdateEffects ==
    /\ frameCount < MaxUpdates
    /\ \E dt \in DeltaTimes :
        Install([updateExplosions(Cur, dt, webgpuSupported) EXCEPT
                    !.deltaTime = dt, !.frameCount = @ + 1])
    /\ UNCHANGED <<now, qualitySelect, webgpuSupported, startCount, basic>>

ExplosionsNext ==
    \/ SpawnEffect
    \/ UpdateEffects

SpecExplosions == ExplosionsInit /\ [][ExplosionsNext]_vars

-----------------------------------------------------------------------------
(* updateParticles applied to a field of MaxParticles particles, as created *)
(* or in flight: SpecParticles                                              *)

\* particles as createParticleSystem draws them (|position| <= 100,
\* |velocity| <= 1, lifetime below 1) and as they are later in their flight
ParticleSeeds ==
    {[position |-> <<0, 0, 0>>, velocity |-> <<0, 0, 0>>, lifetime |-> 0],
     [position |-> <<-100 * PositionOne, 99 * PositionOne, 50 * PositionOne>>,
      velocity |-> <<-2, 1, -1>>, lifetime |-> 50 * FrameInterval],
     [position |-> <<150 * PositionOne - FrameInterval, 0, 0>>,
      velocity |-> <<1, 0, 0>>, lifetime |-> 0],
     [position |-> <<10 * PositionOne, -149 * PositionOne, -20 * PositionOne>>,
      velocity |-> <<1, -2, 0>>, lifetime |-> 99 * FrameInterval],
     [position |-> <<0, 0, 150 * PositionOne>>,
      velocity |-> <<0, 0, 1>>, lifetime |-> 0]}

\* positions (Math.random() - 0.5) * 50 can give
ResetChoices ==
    {<<-ResetRadius, 0, ResetRadius - 1>>,
     <<ResetRadius - 1, -ResetRadius, 12 * PositionOne>>,
     <<0, 0, 0>>}

ParticlesInit ==
    /\ now = PageLoadTime
    /\ qualitySelect = "insane"
    /\ webgpuSupported \in BOOLEAN
    /\ startCount = 1
    /\ basic = BasicInit
    /\ \E seeds \in [1 .. MaxParticles -> ParticleSeeds],
          enhanced \in BOOLEAN :
        /\ webgpuSupported => enhanced
        /\ Holds([RunningPage(webgpuSupported) EXCEPT
                    !.particleSystem =
                        createParticleSystem(MaxParticles, 1, seeds, enhanced)])

\* the frame's call of updateParticles, the frame counted
UpdateField ==
    /\ frameCount <= MaxParticleUpdates
    /\ \E dt \in DeltaTimes, resets \in [1 .. MaxParticles -> ResetChoices] :
        Install([updateParticles(Cur, dt, webgpuSupported, resets) EXCEPT
                    !.deltaTime = dt, !.frameCount = @ + 1])
    /\ UNCHANGED <<now, qualitySelect, webgpuSupported, startCount, basic>>

ParticlesNext == UpdateField

SpecParticles == ParticlesInit /\ [][ParticlesNext]_vars

-----------------------------------------------------------------------------
(* The claims of the specification, under Spec *)

ValidQuality == qualitySelect \in DOMAIN qualitySettings

\* C1: at every observable point the explosion pool holds at most maxExplosions
\* effects (5, or 8 with WebGPU), whichever path spawned them
PoolWithinCap == Len(explosionParticles) <= maxExplosions(webgpuSupported)

\* C2: a start request while a run is in progress changes nothing: the run keeps
\* its frameCount and startTime and no second frame loop is started, so that at
\* most one frame callback is ever pending
StartWhileRunningIgnored ==
    [][(running /\ startCount' = startCount + 1) =>
          /\ frameCount' = frameCount
          /\ startTime' = startTime
          /\ rafQueue' = rafQueue]_vars

\* a keydown handler ran: no other handler leaves all of these as they were
KeyDownStep == UNCHANGED <<startCount, rafQueue, timers, qualitySelect, now>>

\* C3: Escape after n frames of a run ends the run with frameCount and the
\* elapsed time as they were after the last frame (elapsed = time of the last
\* frame - startTime, less than maxTime), and the report, written when the tier
\* is a key of qualitySettings, shows avgFPS = frameCount / elapsed and that
\* elapsed time as the duration
CancelReportsMeasuredTime ==
    [][(running /\ KeyDownStep) =>
          /\ ~running'
          /\ frameCount' = frameCount
          /\ totalTime' = totalTime
          /\ totalTime < maxTime * UnitsPerSecond
          /\ frameCount > 0 => totalTime = lastTime - startTime
          /\ ValidQuality =>
                /\ resultBox'.display = "block"
                /\ reports' = reports + 1
                /\ resultBox'.report.avgFPS =
                      Quotient(frameCount * UnitsPerSecond, totalTime)
                /\ resultBox'.report.fpsText = toFixed1(resultBox'.report.avgFPS)
                /\ resultBox'.report.durationText =
                      (20 * totalTime + UnitsPerSecond) \div (2 * UnitsPerSecond)
          /\ ~ValidQuality => resultBox' = resultBox]_vars

\* a run cancelled after several frames and some elapsed time, report shown
CancelledAfterFrames ==
    /\ ~running
    /\ resultBox.display = "block"
    /\ frameCount >= 3
    /\ totalTime > 0
    /\ totalTime < maxTime * UnitsPerSecond
    /\ resultBox.report.avgFPS = Quotient(frameCount * UnitsPerSecond, totalTime)

\* C5: a report never shows NaN or Infinity: with elapsed <= 0 the average is
\* a defined finite number
ReportIsFinite ==
    resultBox.display = "block" => IsFinite(resultBox.report.avgFPS)

\* C8: a start with a tier that is no key of qualitySettings is rejected before
\* any state changes: afterwards the run is idle, no frame callback and no
\* timer was added and frameCount did not advance
InvalidTierRejected ==
    [][(startCount' = startCount + 1 /\ ~ValidQuality) =>
          /\ running' = FALSE
          /\ rafQueue' = rafQueue
          /\ timers' = timers
          /\ frameCount' = frameCount]_vars

LightsAmbientOnly(h) == \A l \in DOMAIN h.lights : l.type = "AmbientLight"

\* C9: clearScene is idempotent and safe.  After one call from any state cubes
\* and the explosion pool are empty, lights holds ambient lights only and
\* particleSystem is null, or still undefined when no particle system was ever
\* created; a second call changes nothing, and from the first-ever state the
\* call changes nothing at all
ClearSceneIdempotent ==
    LET h1 == clearScene(Cur)
    IN  /\ h1.cubes = EmptyBag
        /\ h1.explosionParticles = <<>>
        /\ LightsAmbientOnly(h1)
        /\ h1.particleSystem.kind =
              (IF particleSystem.kind = "undefined" THEN "undefined" ELSE "null")
        /\ clearScene(h1) = h1
        /\ \A e \in DOMAIN h1.scene : e.type = "AmbientLight"
        /\ startCount = 0 => h1 = Cur

\* C9 as written: after one call particleSystem is null
ClearSceneLeavesNull == clearScene(Cur).particleSystem.kind = "null"

\* a populated scene with live explosion effects, about to be cleared
PopulatedScene ==
    /\ BagCardinality(cubes) = 2000
    /\ particleSystem.kind = "points"
    /\ Len(explosionParticles) >= 2
    /\ BagCardinality(lights) = 26
    /\ BagCardinality(clearScene(Cur).scene) = 1

-----------------------------------------------------------------------------
(* The claims under SpecNominal and SpecBasic *)

\* the time from startTime to the first frame, when every later frame came one
\* FrameInterval after the one before
NominalOffset == totalTime - (frameCount - 1) * FrameInterval

MainFinished == startCount = 1 /\ frameCount > 0 /\ ~running

BasicFinished == basic.result.display = "block"

BasicSceneIsLastSetup ==
    startCount > 0 =>
        /\ \A e \in DOMAIN basic.scene : e.tag = startCount
        /\ BagCardinality(basic.scene) = BagCardinality(basic.cubes) + 2

\* C29: in the first program of part_000 a run ends on exactly its
\* maxTime * 60 = 1800th executed frame, whatever time the frames took, and
\* every result shown is the average 1800 / 30 = 60, printed 60.00, with the
\* label of the highest bucket: the result does not depend on the clock
BasicResultIgnoresClock ==
    /\ basic.running => basic.frameCount < maxTime * 60
    /\ BasicFinished =>
          /\ ~basic.running
          /\ basic.frameCount = maxTime * 60
          /\ basic.result.avgFPS = Quotient(basic.frameCount, maxTime)
          /\ basic.result.text = [kind |-> "number", hundredths |-> 6000]
          /\ basic.result.performance = "High-end"

\* a single run whose 1800 frames took 60 s or more has ended
SlowBasicRunFinished ==
    /\ BasicFinished
    /\ startCount = 1
    /\ now >= PageLoadTime + 2 * Stall

-----------------------------------------------------------------------------
(* The claims under SpecClassify and SpecExplosions *)

\* the bucket of the list >55, >40, >25, >15, else lowest
ListBucket(q) ==
    IF Greater(q, 55) THEN 1
    ELSE IF Greater(q, 40) THEN 2
    ELSE IF Greater(q, 25) THEN 3
    ELSE IF Greater(q, 15) THEN 4
    ELSE 5

LabelBucket(label) ==
    CASE label \in {"BEAST MODE", "WEBGPU BEAST"} -> 1
      [] label \in {"HIGH-END", "WEBGPU HIGH-END"} -> 2
      [] label = "MID-RANGE" -> 3
      [] label = "BUDGET" -> 4
      [] label = "TOASTER" -> 5
      [] OTHER -> 0

EffectsAlive ==
    \A i \in DOMAIN explosionParticles :
        /\ explosionParticles[i].life > 0
        /\ explosionParticles[i].life <= LifeOne
        /\ CopiesIn(ExplosionEntity(explosionParticles[i]), scene) = 1

\* C10: a call of updateExplosions with deltaTime > 0 leaves every effect with
\* a strictly smaller life, or, when the decrement brings its life to 0 or
\* below, without the effect in the pool and in the scene; between the calls
\* every effect of the pool has 0 < life <= 1
ExplosionLifeDecreases ==
    /\ []EffectsAlive
    /\ [][(frameCount' = frameCount + 1 /\ deltaTime' > 0) =>
            \A i \in DOMAIN explosionParticles :
                LET e == explosionParticles[i]
                    left == e.life - deltaTime' * lifeDecay(webgpuSupported)
                    after == {j \in DOMAIN explosionParticles' :
                                explosionParticles'[j].id = e.id}
                IN  IF left <= 0
                    THEN /\ after = {}
                         /\ CopiesIn(ExplosionEntity(e), scene') = 0
                    ELSE /\ Cardinality(after) = 1
                         /\ \A j \in after :
                              /\ explosionParticles'[j].life < e.life
                              /\ explosionParticles'[j].life = left]_vars

\* the effect created first has expired and was removed, the second lives on
FirstEffectExpired ==
    /\ Len(explosionParticles) = 1
    /\ explosionParticles[1].id = 2
    /\ explosionParticles[1].life < LifeOne
    /\ deltaTime > 0

-----------------------------------------------------------------------------
(* The claims under SpecParticles *)

Component(p, c) == particleSystem.positions[3 * (p - 1) + c]

\* C11: after every updateParticles call a particle that did not wrap in the
\* call has every position component within 150 of the origin, and one that
\* wrapped has every component within 25
ParticlesWithinRadius ==
    \A p \in 1 .. Len(particleSystem.wrapped), c \in 1 .. 3 :
        Abs(Component(p, c))
            <= (IF particleSystem.wrapped[p] THEN ResetRadius ELSE WrapRadius)

\* one particle wrapped in the last call, another stayed, on the boundary
OneParticleWrapped ==
    /\ frameCount > 1
    /\ \E p, q \in 1 .. Len(particleSystem.wrapped) :
        /\ particleSystem.wrapped[p]
        /\ ~particleSystem.wrapped[q]
        /\ \E c \in 1 .. 3 : Abs(Component(q, c)) = WrapRadius

\* C20: after any number of updateParticles calls the position, velocity and
\* color buffers have length 3 N, N the count the field was created with, and
\* the scale and lifetime buffers, when present, length N
BuffersKeepLength ==
    /\ Len(particleSystem.positions) = 3 * particleSystem.count
    /\ Len(particleSystem.velocities) = 3 * particleSystem.count
    /\ Len(particleSystem.colors) = 3 * particleSystem.count
    /\ particleSystem.count = MaxParticles
    /\ particleSystem.scales.present =>
          Len(particleSystem.scales.array) = particleSystem.count
    /\ particleSystem.lifetimes.present =>
          Len(particleSystem.lifetimes.array) = particleSystem.count

\* a field with scale and lifetime buffers after updates in which a particle
\* wrapped
EnhancedFieldUpdated ==
    /\ frameCount > 2
    /\ particleSystem.scales.present
    /\ \E p \in 1 .. Len(particleSystem.wrapped) : particleSystem.wrapped[p]

\* what updateParticles makes of a particle's position component and of its
\* lifetime when the particle does not wrap
Advanced(p, c) ==
    Component(p, c) + particleSystem.velocities[3 * (p - 1) + c] * deltaTime'

Aged(p) ==
    particleSystem.lifetimes.array[p]
        + (IF webgpuSupported /\ particleSystem.scales.present
           THEN deltaTime' ELSE 0)

\* what every updateParticles call does, wrap or no wrap: the velocity buffer
\* is not written and a particle that does not wrap moves by its own velocity
\* and ages, whatever the other particles do
WrapLeavesOthers ==
    /\ particleSystem.velocities' = particleSystem.velocities
    /\ \A p \in 1 .. Len(particleSystem.wrapped) :
          ~particleSystem.wrapped'[p] =>
             /\ \A c \in 1 .. 3 :
                   particleSystem.positions'[3 * (p - 1) + c] = Advanced(p, c)
             /\ particleSystem.lifetimes.present =>
                   particleSystem.lifetimes.array'[p] = Aged(p)

\* C22: updateParticles never writes the velocity buffer, a wrap of a
\* particle changes no other particle's position, and besides the position
\* the wrap resets one attribute of the particle, where the field has it: its
\* lifetime, set to 0
WrapResetsPositionAndLifetime ==
    [][/\ WrapLeavesOthers
       /\ \A p \in 1 .. Len(particleSystem.wrapped) :
             (particleSystem.wrapped'[p] /\ particleSystem.lifetimes.present)
                => particleSystem.lifetimes.array'[p] = 0]_vars

\* C22 as written: the wrap resets no attribute of the particle other than
\* its position, so the lifetime of a wrapped particle is what it would be
\* without the wrap
WrapResetsOnlyPosition ==
    [][/\ WrapLeavesOthers
       /\ \A p \in 1 .. Len(particleSystem.wrapped) :
             (particleSystem.wrapped'[p] /\ particleSystem.lifetimes.present)
                => particleSystem.lifetimes.array'[p] = Aged(p)]_vars

\* a particle of a field with lifetimes has wrapped and its lifetime is 0,
\* next to a particle that stayed and has aged
WrappedLifetimeReset ==
    /\ particleSystem.lifetimes.present
    /\ \E p, q \in 1 .. Len(particleSystem.wrapped) :
        /\ particleSystem.wrapped[p]
        /\ particleSystem.lifetimes.array[p] = 0
        /\ ~particleSystem.wrapped[q]
        /\ particleSystem.lifetimes.array[q] > 50 * FrameInterval

-----------------------------------------------------------------------------
(* Properties of Spec: timers, frames and reports after the run has ended *)

\* a step that runs a setTimeout callback: it takes its timer off the list
TimerStep == timers' # timers /\ startCount' = startCount

\* C12: a scripted explosion callback (the 2000 ms timer or a burst timer)
\* that fires while running is false changes nothing: the explosion pool,
\* the scene and every other variable of the run stay as they were, and no
\* further timer is scheduled
ScriptedCallbackInertWhenStopped ==
    [][(TimerStep /\ ~running) =>
          /\ UNCHANGED <<explosionParticles, scene, cubes, lights,
                         particleSystem, cameraShake, running, frameCount,
                         totalTime, resultBox, rafQueue, reports>>
          /\ BagCardinality(timers') = BagCardinality(timers) - 1]_vars

\* of the burst timers of the only run, one has fired and left the pool
\* empty: it fired after the run was cancelled
BurstFiredAfterCancel ==
    /\ startCount = 1
    /\ ~running
    /\ explosionParticles = <<>>
    /\ timers # EmptyBag
    /\ BagCardinality(timers) < explosionCount(webgpuSupported)
    /\ \A tm \in DOMAIN timers : tm.kind = "inner"

\* C14: while the run is not running and until the next start, no step
\* changes frameCount or totalTime, runs a frame body (frame time, particle
\* field, explosion pool, camera shake) or writes a report: a frame callback
\* left over from the finished run and an Escape keydown have no effect
FinishedRunIsFrozen ==
    [][(~running /\ startCount' = startCount) =>
          UNCHANGED <<running, frameCount, totalTime, lastTime, deltaTime,
                      cubes, lights, particleSystem, explosionParticles,
                      cameraShake, scene, resultBox, reports>>]_vars

\* the only run was cancelled while a frame callback was pending, and that
\* callback has since run
LeftoverFrameReturned ==
    /\ startCount = 1
    /\ ~running
    /\ reports = 1
    /\ frameCount > 0
    /\ totalTime < maxTime * UnitsPerSecond
    /\ rafQueue = <<>>

\* C16: a report states the population of the scene that start() set up for
\* the run it reports on: its numbers of cubes, particles and dynamic lights
\* are those of the scene, whatever the quality selection has become since
ReportStatesPopulatedTier ==
    reports > 0 =>
        /\ resultBox.report.cubes = BagCardinality(cubes)
        /\ resultBox.report.particles = particleSystem.count
        /\ resultBox.report.lights = BagCardinality(NonAmbient(lights))

\* C17: once a run has ended with its report, every entity created for it is
\* destroyed: no cube, no particle field, no dynamic light and no explosion
\* effect is left, in the collections or in the scene; and while a run is
\* running, the scene holds no cube, particle field, dynamic light or
\* explosion effect that an earlier run created
RunEndDestroysEntities ==
    /\ (~running /\ reports > 0) =>
          /\ cubes = EmptyBag
          /\ explosionParticles = <<>>
          /\ particleSystem.kind # "points"
          /\ NonAmbient(lights) = EmptyBag
          /\ \A e \in DOMAIN scene : e.type = "AmbientLight"
    /\ running =>
          \A e \in DOMAIN scene :
              e.type # "AmbientLight" /\ e.type # "Explosion"
                  => e.tag = startCount

\* a step that runs a frame callback of a running run
FrameStep == running /\ startCount' = startCount /\ rafQueue' # rafQueue

\* a step that runs startBenchmark through to its first frame
FirstFrameStep == startCount' # startCount /\ frameCount' = 1

\* C18: an executed frame counts itself and then ends in one of two ways:
\* with totalTime below maxTime it requests one next frame and writes no
\* report, otherwise it calls finishBenchmark once (running becomes false and,
\* the selected tier being known, one report is written) and requests no frame
FrameEndsOneWay ==
    [][/\ FrameStep =>
            /\ frameCount' = frameCount + 1
            /\ totalTime' = now - startTime
            /\ IF totalTime' < maxTime * UnitsPerSecond
               THEN /\ running'
                    /\ rafQueue' = Append(Tail(rafQueue), now)
                    /\ reports' = reports
                    /\ resultBox' = resultBox
               ELSE /\ ~running'
                    /\ rafQueue' = Tail(rafQueue)
                    /\ reports' = reports
                         + (IF qualitySelect \in DOMAIN qualitySettings
                            THEN 1 ELSE 0)
       /\ FirstFrameStep =>
            /\ totalTime' < maxTime * UnitsPerSecond
            /\ running'
            /\ rafQueue' = Append(rafQueue, now')
            /\ reports' = 0]_vars

\* the frame that found totalTime equal to maxTime has ended the run
FrameAtLimitFinished ==
    /\ ~running
    /\ reports = 1
    /\ frameCount = 2
    /\ totalTime = maxTime * UnitsPerSecond
    /\ rafQueue = <<>>

\* C19: the clock being monotonic, the deltaTime of every executed frame is
\* between 0 and 2: it is the time since the frame before over 16.67 ms when
\* that is at most 2, and 2 for any longer gap (0 in the first frame of the
\* page, which has no frame before it)
DeltaTimeClamped ==
    [][(FrameStep \/ FirstFrameStep) =>
          /\ lastTime' = now'
          /\ lastTime' >= lastTime
          /\ deltaTime' >= 0
          /\ deltaTime' <= 2 * FrameInterval
          /\ deltaTime' =
                IF lastTime = 0 THEN 0
                ELSE IF now' - lastTime <= 2 * FrameInterval
                     THEN now' - lastTime
                     ELSE 2 * FrameInterval]_vars

\* the second frame of a run came a whole maxTime after the first, and its
\* deltaTime is 2
FrameAfterLongGap ==
    /\ frameCount = 2
    /\ totalTime >= Stall
    /\ lastTime = startTime + totalTime
    /\ deltaTime = 2 * FrameInterval

\* the effects of the pool that a cube spawned by chance
Randoms(pool) == Cardinality({i \in DOMAIN pool : pool[i].src = "random"})

\* a step in which a frame spawned an effect by chance
ChanceSpawnStep ==
    \/ FirstFrameStep /\ Randoms(explosionParticles') > 0
    \/ FrameStep /\ Randoms(explosionParticles') > Randoms(explosionParticles)

\* C24: the camera shake intensity, base/10 * 0.95^decays, is between 0 and
\* the trigger value (0.5, or 0.7 with WebGPU); only a frame that spawns an
\* effect by chance raises it, to the trigger value, which the shake step of
\* the same frame multiplies by 0.95; every other frame multiplies a positive
\* intensity by 0.95, and no other step changes it
ShakeDecaysBetweenSpawns ==
    /\ [](/\ cameraShake.base \in {0, shakeTrigger(webgpuSupported)}
          /\ cameraShake.decays >= 0
          /\ cameraShake.base = 0 => cameraShake.decays = 0)
    /\ [][IF ChanceSpawnStep
          THEN cameraShake' = [base |-> shakeTrigger(webgpuSupported),
                               decays |-> 1]
          ELSE IF (FrameStep \/ FirstFrameStep) /\ cameraShake.base > 0
          THEN cameraShake' = [cameraShake EXCEPT !.decays = @ + 1]
          ELSE cameraShake' = cameraShake]_vars

\* the shake was raised in the first frame of the second run and has decayed
\* in every frame since
ShakeDecayedSinceRestart ==
    /\ startCount = 2
    /\ frameCount >= 2
    /\ cameraShake.base > 0
    /\ cameraShake.decays = frameCount

\* C25: between a start and the next start finishBenchmark runs at most once,
\* and once when the run has ended: at most one report is written for a run;
\* running becomes false only together with the writing of the report (or with
\* finishBenchmark failing on a selection that is no tier); once it is false,
\* no callback and no keydown makes it true or writes a report again
FinishRunsOnce ==
    /\ [](reports <= 1)
    /\ [][/\ (running /\ ~running') =>
               /\ startCount' = startCount
               /\ reports = 0
               /\ \/ reports' = 1 /\ resultBox'.display = "block"
                  \/ reports' = 0 /\ ~ValidQuality
          /\ (~running /\ startCount' = startCount) =>
               ~running' /\ reports' = reports]_vars

\* the second start came before the frame callback of the first had run, the
\* run ended by time in the older callback, the younger has run since, and
\* the report is still the only one
SecondCallbackAfterTimeout ==
    /\ startCount = 2
    /\ startTime <= PageLoadTime + FrameInterval
    /\ \E tm \in DOMAIN timers : tm.run = 1
    /\ ~running
    /\ reports = 1
    /\ totalTime >= maxTime * UnitsPerSecond
    /\ rafQueue = <<>>
    /\ frameCount = 2

\* C26: between frames a running run has totalTime below maxTime; so the
\* report that an Escape produces is written with totalTime below maxTime and
\* the report that a frame produces with totalTime at maxTime or above
RunningBelowMaxTime ==
    /\ [](running => totalTime < maxTime * UnitsPerSecond)
    /\ [][(running /\ reports' = reports + 1) =>
            IF KeyDownStep
            THEN totalTime' = totalTime /\ totalTime' < maxTime * UnitsPerSecond
            ELSE FrameStep /\ totalTime' >= maxTime * UnitsPerSecond]_vars

\* a run cancelled after several seconds, its next frame callback pending
CancelledWithinMaxTime ==
    /\ ~running
    /\ reports = 1
    /\ frameCount >= 3
    /\ totalTime >= 2 * UnitsPerSecond
    /\ totalTime < maxTime * UnitsPerSecond
    /\ rafQueue # <<>>

\* C27: the first frame of a run, the one startBenchmark executes, has
\* deltaTime 0, also in a run started after an earlier run has finished or
\* was cancelled: the frame time of the earlier run is not used for it
FirstFrameDeltaZero == [][(FirstFrameStep /\ ~running) => deltaTime' = 0]_vars

\* the effects of the pool that a burst timer spawned
Scripted(pool) == {i \in DOMAIN pool : pool[i].src = "scripted"}

\* C28: a run started after an earlier run has finished (its report was
\* written) holds at most explosionCount scripted effects, each spawned by a
\* timer of the run itself: no timer of the finished run spawns into it
ScriptedBurstsOfOwnRun ==
    (running /\ reports = 0 /\ resultBox.report # NoReport) =>
        /\ Cardinality(Scripted(explosionParticles))
              <= explosionCount(webgpuSupported)
        /\ \A i \in Scripted(explosionParticles) :
              explosionParticles[i].by = startCount

-----------------------------------------------------------------------------
(* Properties of SpecRender: a frame whose render call throws *)

\* a step that runs the body of a frame callback
FrameBodyStep == running /\ startCount' = startCount /\ lastTime' # lastTime

\* C15: a frame executed while running either leaves the run running with a
\* frame callback pending, or finishes it with a report, also when the
\* render call of the frame fails; running with no callback pending and no
\* report is never the outcome of a frame
FailedFrameFinishesRun ==
    [][FrameBodyStep =>
          \/ running' /\ rafQueue' # <<>>
          \/ ~running' /\ reports' = reports + 1]_vars

-----------------------------------------------------------------------------
(* Properties of SpecFair: the run ends *)

\* C21: a run started with a valid tier is eventually not running any more,
\* the clock advancing and every requested callback being run: neither
\* explosions nor an Escape keep it running for ever; a run of the first
\* program ends too
RunReachesFinished ==
    /\ (running /\ ValidQuality) ~> ~running
    /\ basic.running ~> ~basic.running

\* the run has ended by time, with explosions spawned on the way
RunEndedByTime ==
    /\ startCount = 1
    /\ ~running
    /\ reports = 1
    /\ totalTime >= maxTime * UnitsPerSecond
    /\ frameCount > 2
    /\ explosionParticles # <<>>

-----------------------------------------------------------------------------
(* The claim under SpecCamera *)

\* the shake of a frame has added one offset of the given intensity to c
Shaken(c, d, shake) ==
    /\ d.value = c.value
    /\ \E draw \in {-1, 1} :
          d.offsets = Append(c.offsets, [draw |-> draw, base |-> shake.base,
                                        decays |-> shake.decays - 1])

\* C30: after every executed frame, and so at its render call, camera.position.x
\* and camera.position.z are the points of the orbital path at that frame's
\* timestamp, without any shake offset.  camera.position.y changes only by the
\* offset of a frame whose shake was positive, and by setupScene, which sets
\* it to 0 before the first frame of a run adds its offset
ShakeStaysInCameraY ==
    /\ [](lastTime > 0 => /\ camera.x = coordinate(Orbital(lastTime))
                          /\ camera.z = coordinate(Orbital(lastTime)))
    /\ [][camera.y' # camera.y =>
            \/ /\ startCount' # startCount
               /\ \/ camera.y' = coordinate(Literal(0))
                  \/ Shaken(coordinate(Literal(0)), camera.y', cameraShake')
            \/ /\ FrameStep
               /\ Shaken(camera.y, camera.y', cameraShake')]_vars

\* the second run has shaken the camera in two frames
CameraShakenTwice ==
    /\ startCount = 2
    /\ frameCount >= 2
    /\ Len(camera.y.offsets) = 2
    /\ camera.x = coordinate(Orbital(lastTime))

=============================================================================
